---- MODULE Spec2Model ----
(***************************************************************************)
(* Retry orchestration of the SIGITM ETL pipeline                          *)
(* (src/main_base_sigitm_lp_fsp.py, MainOrchestrator) together with the    *)
(* parts of ExcelFileHandler (src/src/process_data_sigitm.py) the load     *)
(* step calls.  One action per statement group of the Python code; the     *)
(* outcome of every collaborator call is an input chosen with \E.          *)
(***************************************************************************)
EXTENDS Integers, Sequences, FiniteSets, TLC

\* ---------------------------------------------------------------- constants
\* self.max_retries = 3
max_retries == 3

\* self.retry_delay = 10
retry_delay == 10

\* self.vpn_config.vpn_switch_timeout, in time units (set by VPNConfig)
vpn_switch_timeout == 2

\* the margin added to it: timeout=self.vpn_config.vpn_switch_timeout + 10
VpnMargin == 10

\* number of distinct artifact paths the scraping workflow may return
NumPaths == 2

Paths == 1..NumPaths

\* "no path" (Python None) returned by the scraping workflow
NoPath == 0

\* exit status of a process that has not exited
NoExit == -1

Attempts == 1..max_retries

\* ------------------------------------------------------- exception classes
\* SystemExit derives from BaseException, every other class used here from
\* Exception.
ExcClasses == {"Exception", "ConnectionError", "RuntimeError", "TimeoutError",
               "SystemExit"}

\* a handler that also intercepts BaseException (bare except)
IsExceptionBare(e) == e \in ExcClasses

\* isinstance(e, Exception): what "except Exception" matches
IsException(e) == e \in ExcClasses \ {"SystemExit"}

\* ------------------------------------------------------ try/except layout
\* statements covered by the try of _manage_vpn_connection (lines 30-46)
InVpnTry(site) == site \in {"vpn_await"}

\* a try of _load_step that starts only at the persist phase and ends before
\* the release of the connection
InLoadTryNarrow(site) == site \in {"load_table_exists", "load_create",
                                   "load_insert", "load_delete"}

\* statements covered by the try of _load_step (lines 62-92)
InLoadTry(site) == site \in {"load_transform", "load_acquire",
                             "load_table_exists", "load_create", "load_insert",
                             "load_delete", "load_release"}

\* a try of run_pipeline that starts only after the VPN step
InAttemptTryAfterVpn(site) == site \in {"ext_ctor", "ext_run", "ext_close",
                                        "ext_check", "load_transform",
                                        "load_acquire", "load_table_exists",
                                        "load_create", "load_insert",
                                        "load_delete", "load_release",
                                        "sys_exit0"}

\* statements covered by the try of run_pipeline (lines 103-124), directly or
\* through the calls made inside it
InAttemptTry(site) == site \in {"vpn_ctor", "vpn_await", "vpn_check",
                                "ext_ctor", "ext_run", "ext_close", "ext_check",
                                "load_transform", "load_acquire",
                                "load_table_exists", "load_create",
                                "load_insert", "load_delete", "load_release",
                                "sys_exit0"}

\* the program location an exception of class e raised at site transfers to:
\* the innermost enclosing except clause that matches it
Handler(site, e) ==
    IF InVpnTry(site) /\ IsException(e) THEN "vpn_except"
    ELSE IF InLoadTry(site) /\ IsException(e) THEN "load_except"
    ELSE IF InAttemptTry(site) /\ IsException(e) THEN "attempt_except"
    ELSE "uncaught"

\* the stage of the attempt a statement belongs to
StageOf(site) ==
    IF site \in {"vpn_ctor", "vpn_await", "vpn_check"} THEN "vpn"
    ELSE IF site \in {"ext_ctor", "ext_run", "ext_close", "ext_check"} THEN "extract"
    ELSE IF site \in {"sys_exit0", "sys_exit1"} THEN "exit"
    ELSE "load"

\* ------------------------------------------------------------------- state
VARIABLES
    pc,            \* position of the run_pipeline coroutine
    attempt,       \* loop variable of run_pipeline
    exc,           \* class of the exception in flight, "none" if none
    excSite,       \* statement that raised it
    exitStatus,    \* status the process exited with, NoExit before
    escaped,       \* TRUE if the process ended by an exception other than SystemExit
    sleepCount,    \* number of asyncio.sleep(retry_delay) calls
    warned,        \* warned[a]: warnings "Falha na tentativa a" logged
    slept,         \* slept[a]: retry delays started in the handler of attempt a
    failStage,     \* failStage[a]: stage attempt a failed at, "none" if not failed
    successes,     \* _load_step calls that returned True
    vpnStarts, extStarts, loadStarts,   \* stage routines started so far
    vpnRet,        \* value returned by _manage_vpn_connection
    abandoned,     \* connector threads still running after their wait timed out
    vpnElapsed,    \* time units the current wait_for has been waiting
    vpnOutcome,    \* vpnOutcome[a]: how the wait of attempt a ended, "none" before
    scraperMade,   \* SIGITMAutomation() of the current _extract_step call returned
    workflowEnded, \* execute_process_sigitm of the current call returned or raised
    closeCalls,    \* scraper.close() calls of the current _extract_step call
    sessionOpen,   \* browser sessions open
    sessionFaults, \* SIGITMAutomation() and close() calls of the run that raised
    extRet,        \* <<success, path>> returned by _extract_step
    files,         \* artifact files present on disk
    loadArg,       \* file_path argument of the current _load_step call
    loadRet,       \* value returned by the current _load_step call
    loadPending,   \* what leaves the with block: "none", "return", "raise"
    dfPresent,     \* result.dataframe of the transform is present
    trFault,       \* the failure process_most_recent_file met in the current call
    dbOpen,        \* database connections open
    dbFaults,      \* connection acquisitions and releases of the run that raised
    tableExists,   \* the target table exists in the database
    inserts,       \* bulk inserts completed in the run
    loadLog        \* collaborator calls of the current _load_step call, in order

vars == <<pc, attempt, exc, excSite, exitStatus, escaped, sleepCount, warned, slept,
          failStage, successes, vpnStarts, extStarts, loadStarts, vpnRet, abandoned,
          vpnElapsed, vpnOutcome,
          scraperMade, workflowEnded, closeCalls, sessionOpen, sessionFaults, extRet,
          files,
          loadArg, loadRet, loadPending, dfPresent, trFault, dbOpen, dbFaults,
          tableExists,
          inserts, loadLog>>

ctlVars == <<pc, attempt, exc, excSite, exitStatus, escaped>>
histVars == <<sleepCount, warned, slept, failStage, successes>>
startVars == <<vpnStarts, extStarts, loadStarts>>
vpnVars == <<vpnRet, abandoned, vpnElapsed, vpnOutcome>>
extVars == <<scraperMade, workflowEnded, closeCalls, sessionOpen, sessionFaults, extRet>>
loadVars == <<loadArg, loadRet, loadPending, dfPresent, trFault, dbOpen, dbFaults,
             loadLog>>
worldVars == <<files, tableExists, inserts>>

Init ==
    /\ pc = "loop"
    /\ attempt = 1
    /\ exc = "none"
    /\ excSite = "none"
    /\ exitStatus = NoExit
    /\ escaped = FALSE
    /\ sleepCount = 0
    /\ warned = [a \in Attempts |-> 0]
    /\ slept = [a \in Attempts |-> 0]
    /\ failStage = [a \in Attempts |-> "none"]
    /\ successes = 0
    /\ vpnStarts = 0 /\ extStarts = 0 /\ loadStarts = 0
    /\ vpnRet = "None"
    /\ abandoned = 0
    /\ vpnElapsed = 0
    /\ vpnOutcome = [a \in Attempts |-> "none"]
    /\ scraperMade = FALSE
    /\ workflowEnded = FALSE
    /\ closeCalls = 0
    /\ sessionOpen = 0
    /\ sessionFaults = 0
    /\ extRet = <<FALSE, NoPath>>
    /\ files = {}
    /\ loadArg = NoPath
    /\ loadRet = "None"
    /\ loadPending = "none"
    /\ dfPresent = FALSE
    /\ trFault = "none"
    /\ dbOpen = 0
    /\ dbFaults = 0
    /\ tableExists \in BOOLEAN
    /\ inserts = 0
    /\ loadLog = <<>>

\* an exception of class e is raised at site: control moves to its handler
Raise(site, e) ==
    /\ exc' = e
    /\ excSite' = site
    /\ pc' = Handler(site, e)

\* ------------------------------------------------------------ run_pipeline
\* range(1, self.max_retries) : one attempt short
LoopRangeShort == 1..(max_retries - 1)

\* range(1, self.max_retries + 1)
LoopRange == 1..max_retries

\* if attempt <= self.max_retries (line 122)
WaitsAfter(a) == a <= max_retries

\* a test that takes every result but False for a success (is not False)
TruthyUnlessFalse(v) == v # "False"

\* truth value Python gives the result of _manage_vpn_connection
Truthy(v) == v = "True"

\* status the interpreter exits with for the SystemExit raised at site
ExitCode(site) == IF site = "sys_exit0" THEN 0 ELSE 1

\* for attempt in range(...): the first lines of an iteration, up to the call
\* of _manage_vpn_connection
LoopIter ==
    /\ pc = "loop"
    /\ IF attempt \in LoopRange
       THEN /\ pc' = "vpn_ctor"
            /\ vpnStarts' = vpnStarts + 1
       ELSE /\ pc' = "exhausted"
            /\ UNCHANGED vpnStarts
    /\ UNCHANGED <<attempt, exc, excSite, exitStatus, escaped, extStarts, loadStarts>>
    /\ UNCHANGED <<histVars, vpnVars, extVars, loadVars, worldVars>>

\* the body of an iteration ended without leaving the loop: next value of the
\* range, or the statements after the loop
LoopNext ==
    /\ pc = "next"
    /\ IF attempt + 1 \in LoopRange
       THEN attempt' = attempt + 1 /\ pc' = "loop"
       ELSE attempt' = attempt /\ pc' = "exhausted"
    /\ UNCHANGED <<exc, excSite, exitStatus, escaped>>
    /\ UNCHANGED <<histVars, startVars, vpnVars, extVars, loadVars, worldVars>>

\* except Exception as e: warning, then the wait (lines 120-124)
AttemptExcept ==
    /\ pc = "attempt_except"
    /\ warned' = [warned EXCEPT ![attempt] = @ + 1]
    /\ failStage' = [failStage EXCEPT ![attempt] = StageOf(excSite)]
    /\ exc' = "none"
    /\ IF WaitsAfter(attempt)
       THEN /\ sleepCount' = sleepCount + 1
            /\ slept' = [slept EXCEPT ![attempt] = @ + 1]
            /\ pc' = "sleep"
       ELSE /\ UNCHANGED <<sleepCount, slept>>
            /\ pc' = "next"
    /\ UNCHANGED <<attempt, excSite, exitStatus, escaped, successes>>
    /\ UNCHANGED <<startVars, vpnVars, extVars, loadVars, worldVars>>

\* await asyncio.sleep(self.retry_delay) completes (line 124)
SleepDone ==
    /\ pc = "sleep"
    /\ pc' = "next"
    /\ UNCHANGED <<attempt, exc, excSite, exitStatus, escaped>>
    /\ UNCHANGED <<histVars, startVars, vpnVars, extVars, loadVars, worldVars>>

\* after the loop: critical log and sys.exit(1) (lines 126-127)
Exhausted ==
    /\ pc = "exhausted"
    /\ Raise("sys_exit1", "SystemExit")
    /\ UNCHANGED <<attempt, exitStatus, escaped>>
    /\ UNCHANGED <<histVars, startVars, vpnVars, extVars, loadVars, worldVars>>

\* an exception no except clause matched leaves run_pipeline and asyncio.run:
\* the interpreter exits (lines 130-133).  asyncio.run shuts the default
\* executor down first, which joins the threads started by asyncio.to_thread
ProcessExit ==
    /\ pc = "uncaught"
    /\ abandoned = 0
    /\ pc' = "done"
    /\ exitStatus' = IF exc = "SystemExit" THEN ExitCode(excSite) ELSE 1
    /\ escaped' = (exc # "SystemExit")
    /\ UNCHANGED <<attempt, exc, excSite>>
    /\ UNCHANGED <<histVars, startVars, vpnVars, extVars, loadVars, worldVars>>

\* -------------------------------------------------- _manage_vpn_connection
\* manager = VPNConnectionManager(self.vpn_config) and the start of the worker
\* thread (lines 28, 32)
VpnConstruct ==
    /\ pc = "vpn_ctor"
    /\ \E ok \in BOOLEAN :
         IF ok THEN pc' = "vpn_wait" /\ UNCHANGED <<exc, excSite>>
               ELSE Raise("vpn_ctor", "Exception")
    /\ UNCHANGED <<attempt, exitStatus, escaped>>
    /\ UNCHANGED <<histVars, startVars, vpnVars, extVars, loadVars, worldVars>>

\* a timeout of vpn_switch_timeout * 10 instead of vpn_switch_timeout + 10
VpnDeadlineScaled == vpn_switch_timeout * VpnMargin

\* timeout=self.vpn_config.vpn_switch_timeout + 10 (line 33)
VpnDeadline == vpn_switch_timeout + VpnMargin

\* a wait that also leaves the thread behind when it ends with an exception
LeavesThreadOnFault(r) == r \in {"timeout", "fault"}

\* whether the connector thread is still running when the wait ends with
\* outcome r (lines 31-34): a thread cannot be cancelled, so the wait that
\* ends by the timeout leaves it running; in the other cases it has finished
LeavesThread(r) == r = "timeout"

\* one time unit passes while wait_for is waiting (lines 31-34); the timer of
\* wait_for lets no more than the timeout pass
VpnTick ==
    /\ pc = "vpn_wait"
    /\ vpnElapsed < VpnDeadline
    /\ vpnElapsed' = vpnElapsed + 1
    /\ UNCHANGED <<ctlVars, vpnRet, abandoned, vpnOutcome>>
    /\ UNCHANGED <<histVars, startVars, extVars, loadVars, worldVars>>

\* await asyncio.wait_for(asyncio.to_thread(...), timeout) ends (lines 31-40):
\* the connector returned a status, raised, or the timeout expired first and
\* the thread keeps running
VpnWait ==
    /\ pc = "vpn_wait"
    /\ \E r \in {"ok", "neg", "fault", "timeout"} :
         /\ IF r = "timeout" THEN vpnElapsed = VpnDeadline
                             ELSE vpnElapsed <= VpnDeadline
         /\ vpnOutcome' = [vpnOutcome EXCEPT ![attempt] = r]
         /\ abandoned' = IF LeavesThread(r) THEN abandoned + 1 ELSE abandoned
         /\ CASE r = "ok" -> /\ vpnRet' = "True"
                             /\ pc' = "vpn_check"
                             /\ UNCHANGED <<exc, excSite>>
              [] r = "neg" -> /\ vpnRet' = "None"
                              /\ pc' = "vpn_check"
                              /\ UNCHANGED <<exc, excSite>>
              [] r = "fault" -> /\ Raise("vpn_await", "Exception")
                                /\ UNCHANGED vpnRet
              [] r = "timeout" -> /\ Raise("vpn_await", "TimeoutError")
                                  /\ UNCHANGED vpnRet
    /\ UNCHANGED <<attempt, exitStatus, escaped, vpnElapsed>>
    /\ UNCHANGED <<histVars, startVars, extVars, loadVars, worldVars>>

\* except TimeoutError / except Exception: return False (lines 41-46)
VpnExcept ==
    /\ pc = "vpn_except"
    /\ vpnRet' = "False"
    /\ exc' = "none"
    /\ pc' = "vpn_check"
    /\ UNCHANGED <<attempt, excSite, exitStatus, escaped, abandoned, vpnElapsed,
                   vpnOutcome>>
    /\ UNCHANGED <<histVars, startVars, extVars, loadVars, worldVars>>

\* a connector thread whose wait timed out finishes; its result is dropped
AbandonedFinish ==
    /\ abandoned > 0
    /\ pc # "done"
    /\ abandoned' = abandoned - 1
    /\ UNCHANGED <<ctlVars, vpnRet, vpnElapsed, vpnOutcome>>
    /\ UNCHANGED <<histVars, startVars, extVars, loadVars, worldVars>>

\* if not await self._manage_vpn_connection(): raise ConnectionError
\* (lines 105-106), else the call of _extract_step (line 109)
VpnCheck ==
    /\ pc = "vpn_check"
    /\ IF Truthy(vpnRet)
       THEN /\ pc' = "ext_ctor"
            /\ extStarts' = extStarts + 1
            /\ UNCHANGED <<exc, excSite>>
       ELSE /\ Raise("vpn_check", "ConnectionError")
            /\ UNCHANGED extStarts
    /\ vpnElapsed' = 0
    /\ UNCHANGED <<attempt, exitStatus, escaped, vpnStarts, loadStarts>>
    /\ UNCHANGED <<vpnRet, abandoned, vpnOutcome>>
    /\ UNCHANGED <<histVars, extVars, loadVars, worldVars>>
\* ----------------------------------------------------------- _extract_step
\* a close placed after the workflow call instead of in a finally block: an
\* exception of the workflow leaves the function at once
AfterWorkflowNoFinally(raised) ==
    IF raised THEN Handler("ext_run", "Exception") ELSE "ext_finally"

\* try: return await scraper.execute_process_sigitm() finally: ... (lines
\* 53-57): the finally block runs whether the workflow returned or raised
AfterWorkflow(raised) == "ext_finally"

\* the numbers of browser sessions that can be open after SIGITMAutomation()
\* was called with n open: the adapter acquires the session at call start, so
\* a constructor that returns has opened one; of a constructor that raises
\* nothing is said, it may have opened the session before it failed
SessionsAfterConstructor(n, raised) == IF raised THEN {n, n + 1} ELSE {n + 1}

\* the numbers of browser sessions that can be open after scraper.close() was
\* called with n open: a close that returns has torn the session down
\* (released on every exit path; idempotent, safe to call after a failure);
\* of a close that raises nothing is said, the session is closed or still open
SessionsAfterClose(n, raised) == IF raised THEN {n - 1, n} ELSE {n - 1}

\* scraper = SIGITMAutomation() (line 51), before the try: when it raises no
\* scraper is bound and the finally block is not reached
ExtConstruct ==
    /\ pc = "ext_ctor"
    /\ workflowEnded' = FALSE
    /\ closeCalls' = 0
    /\ \E ok \in BOOLEAN :
         /\ sessionOpen' \in SessionsAfterConstructor(sessionOpen, ~ok)
         /\ IF ok THEN /\ scraperMade' = TRUE
                       /\ pc' = "ext_run"
                       /\ UNCHANGED <<exc, excSite, sessionFaults>>
                  ELSE /\ scraperMade' = FALSE
                       /\ sessionFaults' = sessionFaults + 1
                       /\ Raise("ext_ctor", "Exception")
    /\ UNCHANGED <<attempt, exitStatus, escaped, extRet>>
    /\ UNCHANGED <<histVars, startVars, vpnVars, loadVars, worldVars>>

\* return await scraper.execute_process_sigitm() (line 55): the workflow
\* returns a pair (success, path) or raises; a reported artifact is on disk
ExtRun ==
    /\ pc = "ext_run"
    /\ workflowEnded' = TRUE
    /\ \/ \E s \in BOOLEAN, p \in Paths \cup {NoPath} :
            /\ extRet' = <<s, p>>
            /\ files' = IF s /\ p # NoPath THEN files \cup {p} ELSE files
            /\ pc' = AfterWorkflow(FALSE)
            /\ UNCHANGED <<exc, excSite>>
       \/ /\ exc' = "Exception"
          /\ excSite' = "ext_run"
          /\ pc' = AfterWorkflow(TRUE)
          /\ UNCHANGED <<extRet, files>>
    /\ UNCHANGED <<attempt, exitStatus, escaped>>
    /\ UNCHANGED <<scraperMade, closeCalls, sessionOpen, sessionFaults, tableExists, inserts>>
    /\ UNCHANGED <<histVars, startVars, vpnVars, loadVars>>

\* finally: await scraper.close() (lines 56-57), then the pending return or
\* exception goes on; an exception of close replaces either
ExtClose ==
    /\ pc = "ext_finally"
    /\ closeCalls' = closeCalls + 1
    /\ \/ /\ sessionOpen' \in SessionsAfterClose(sessionOpen, FALSE)
          /\ pc' = IF exc = "none" THEN "ext_check" ELSE Handler(excSite, exc)
          /\ UNCHANGED <<exc, excSite, sessionFaults>>
       \/ /\ Raise("ext_close", "Exception")
          /\ sessionOpen' \in SessionsAfterClose(sessionOpen, TRUE)
          /\ sessionFaults' = sessionFaults + 1
    /\ UNCHANGED <<attempt, exitStatus, escaped>>
    /\ UNCHANGED <<scraperMade, workflowEnded, extRet>>
    /\ UNCHANGED <<histVars, startVars, vpnVars, loadVars, worldVars>>

\* success_ext, file_path = ...; if not success_ext or not file_path: raise
\* RuntimeError (lines 109-111), else the call of _load_step (line 114)
ExtCheck ==
    /\ pc = "ext_check"
    /\ IF extRet[1] /\ extRet[2] # NoPath
       THEN /\ pc' = "load_transform"
            /\ loadStarts' = loadStarts + 1
            /\ loadArg' = extRet[2]
            /\ loadRet' = "None"
            /\ loadPending' = "none"
            /\ dfPresent' = FALSE
            /\ trFault' = "none"
            /\ loadLog' = <<>>
            /\ UNCHANGED <<exc, excSite>>
       ELSE /\ Raise("ext_check", "RuntimeError")
            /\ UNCHANGED <<loadStarts, loadArg, loadRet, loadPending, dfPresent, trFault,
                           loadLog>>
    /\ UNCHANGED <<attempt, exitStatus, escaped, vpnStarts, extStarts, dbOpen, dbFaults>>
    /\ UNCHANGED <<histVars, vpnVars, extVars, worldVars>>
\* -------------------------------------------------------------- _load_step
\* a load step that goes on to the persist phase whatever the transform said
AfterTransformIgnoring(success) == "load_acquire"

\* if not result.success: return False (lines 69-71), else the persist phase
AfterTransform(success) == IF success THEN "load_acquire" ELSE "load_ret"

\* the artifact deleted before the insert
PersistOrderDeleteFirst == <<"load_delete", "load_insert">>

\* the statements of the with block after the table is there, in program
\* order: db.bulk_insert_dataframe (line 84), handler.delete_most_recent_file
\* (line 87); return True (line 89) follows the last
PersistOrder == <<"load_insert", "load_delete">>

\* the statement after step in the with block
PersistAfter(step) ==
    IF step = PersistOrder[1] THEN PersistOrder[2] ELSE "load_release"

\* an exception raised inside the with block: __exit__ runs before the
\* exception reaches the except clause (line 77)
RaiseInWith(site) ==
    /\ exc' = "Exception"
    /\ excSite' = site
    /\ loadPending' = "raise"
    /\ pc' = "load_release"

\* the failures process_most_recent_file can meet: none, an exception while
\* the target is located and logged (lines 188-190), in pd.read_excel (line
\* 169), in _process_dataframe (line 171)
TransformFaults == {"none", "locate", "read", "transform"}

\* process_most_recent_file without its own try/except: an exception met
\* before _load_to_dataframe is entered leaves the method
ProcessMostRecentFileUnguarded(present, fault) ==
    IF fault = "locate"
    THEN [success |-> FALSE, dataframe |-> FALSE, raised |-> TRUE]
    ELSE IF fault \in {"read", "transform"} \/ ~present
    THEN [success |-> FALSE, dataframe |-> FALSE, raised |-> FALSE]
    ELSE [success |-> TRUE, dataframe |-> TRUE, raised |-> FALSE]

\* ExcelFileHandler.process_most_recent_file(file_path) for a file that is
\* present or not (process_data_sigitm.py lines 165-195): the
\* FileProcessingResult it returns (success, dataframe is not None) and
\* whether an exception leaves the method.  except Exception at line 193
\* turns a failure of lines 188-190 into success=False; _load_to_dataframe
\* turns a failure of read_excel (also of a missing file) or of
\* _process_dataframe into success=False (lines 177-178), and returns
\* success=True with the processed dataframe otherwise (line 175)
ProcessMostRecentFile(present, fault) ==
    IF fault = "locate"
    THEN [success |-> FALSE, dataframe |-> FALSE, raised |-> FALSE]
    ELSE IF fault \in {"read", "transform"} \/ ~present
    THEN [success |-> FALSE, dataframe |-> FALSE, raised |-> FALSE]
    ELSE [success |-> TRUE, dataframe |-> TRUE, raised |-> FALSE]

\* handler = ExcelFileHandler(); result = handler.process_most_recent_file(
\* file_path=file_path); if not result.success: return False; df =
\* result.dataframe (lines 64-74); the constructor may raise
LoadTransform ==
    /\ pc = "load_transform"
    /\ \/ \E fault \in TransformFaults :
            LET r == ProcessMostRecentFile(loadArg \in files, fault) IN
            /\ trFault' = fault
            /\ dfPresent' = r.dataframe
            /\ IF r.raised
               THEN /\ Raise("load_transform", "Exception")
                    /\ loadLog' = Append(loadLog, "process_raised")
                    /\ UNCHANGED loadRet
               ELSE /\ loadLog' = Append(loadLog, IF r.success THEN "transform_ok"
                                                             ELSE "transform_fail")
                    /\ pc' = AfterTransform(r.success)
                    /\ loadRet' = IF r.success THEN loadRet ELSE "False"
                    /\ UNCHANGED <<exc, excSite>>
       \/ /\ Raise("load_transform", "Exception")
          /\ loadLog' = Append(loadLog, "raised")
          /\ UNCHANGED <<dfPresent, trFault, loadRet>>
    /\ UNCHANGED <<attempt, exitStatus, escaped, loadArg, loadPending, dbOpen, dbFaults>>
    /\ UNCHANGED <<histVars, startVars, vpnVars, extVars, worldVars>>

\* the numbers of database connections that can be open after the
\* acquisition (PostgreSQLHandler(...) and __enter__) ran with n open: an
\* acquisition that returns has opened one; of one that raises nothing is
\* said, it may have connected before it failed
ConnectionsAfterAcquire(n, raised) == IF raised THEN {n, n + 1} ELSE {n + 1}

\* with PostgreSQLHandler(self.db_config) as db (line 77): the connection is
\* acquired, or the constructor / __enter__ raises; the with statement runs
\* __exit__ only for a block it entered
LoadAcquire ==
    /\ pc = "load_acquire"
    /\ \/ /\ dbOpen' \in ConnectionsAfterAcquire(dbOpen, FALSE)
          /\ loadLog' = Append(loadLog, "acquire")
          /\ pc' = "load_table_exists"
          /\ UNCHANGED <<exc, excSite, dbFaults>>
       \/ /\ Raise("load_acquire", "Exception")
          /\ loadLog' = Append(loadLog, "raised")
          /\ dbOpen' \in ConnectionsAfterAcquire(dbOpen, TRUE)
          /\ dbFaults' = dbFaults + 1
    /\ UNCHANGED <<attempt, exitStatus, escaped, loadArg, loadRet, loadPending,
                   dfPresent, trFault>>
    /\ UNCHANGED <<histVars, startVars, vpnVars, extVars, worldVars>>

\* if not db.table_exists(table_name) (line 80)
LoadTableExists ==
    /\ pc = "load_table_exists"
    /\ \/ /\ loadLog' = Append(loadLog, "table_exists")
          /\ pc' = IF tableExists THEN PersistOrder[1] ELSE "load_create"
          /\ UNCHANGED <<exc, excSite, loadPending>>
       \/ /\ RaiseInWith("load_table_exists")
          /\ loadLog' = Append(loadLog, "raised")
    /\ UNCHANGED <<attempt, exitStatus, escaped, loadArg, loadRet, dfPresent, trFault, dbOpen, dbFaults>>
    /\ UNCHANGED <<histVars, startVars, vpnVars, extVars, worldVars>>

\* db.create_table_from_dataframe(df, table_name) (lines 81-82)
LoadCreate ==
    /\ pc = "load_create"
    /\ \/ /\ tableExists' = TRUE
          /\ loadLog' = Append(loadLog, "create")
          /\ pc' = PersistOrder[1]
          /\ UNCHANGED <<exc, excSite, loadPending>>
       \/ /\ RaiseInWith("load_create")
          /\ loadLog' = Append(loadLog, "raised")
          /\ UNCHANGED tableExists
    /\ UNCHANGED <<attempt, exitStatus, escaped, loadArg, loadRet, dfPresent, trFault, dbOpen, dbFaults>>
    /\ UNCHANGED <<files, inserts>>
    /\ UNCHANGED <<histVars, startVars, vpnVars, extVars>>

\* db.bulk_insert_dataframe(df, table_name) (lines 84-85)
LoadInsert ==
    /\ pc = "load_insert"
    /\ \/ /\ inserts' = inserts + 1
          /\ loadLog' = Append(loadLog, "insert")
          /\ pc' = PersistAfter("load_insert")
          /\ loadPending' = IF PersistAfter("load_insert") = "load_release"
                            THEN "return" ELSE loadPending
          /\ UNCHANGED <<exc, excSite>>
       \/ /\ RaiseInWith("load_insert")
          /\ loadLog' = Append(loadLog, "raised")
          /\ UNCHANGED inserts
    /\ UNCHANGED <<attempt, exitStatus, escaped, loadArg, loadRet, dfPresent, trFault, dbOpen, dbFaults>>
    /\ UNCHANGED <<files, tableExists>>
    /\ UNCHANGED <<histVars, startVars, vpnVars, extVars>>

\* handler.delete_most_recent_file(file_path=file_path) (line 87):
\* target_path.unlink() removes the file and the method returns True, or the
\* exception of unlink is logged and it returns False
\* (process_data_sigitm.py lines 197-212); the result is not looked at
LoadDelete ==
    /\ pc = "load_delete"
    /\ \/ /\ loadArg \in files
          /\ files' = files \ {loadArg}
          /\ loadLog' = Append(loadLog, "delete")
       \/ /\ UNCHANGED files
          /\ loadLog' = Append(loadLog, "delete_failed")
    /\ pc' = PersistAfter("load_delete")
    /\ loadPending' = IF PersistAfter("load_delete") = "load_release"
                      THEN "return" ELSE loadPending
    /\ UNCHANGED <<attempt, exc, excSite, exitStatus, escaped, loadArg, loadRet,
                   dfPresent, trFault, dbOpen, dbFaults>>
    /\ UNCHANGED <<tableExists, inserts>>
    /\ UNCHANGED <<histVars, startVars, vpnVars, extVars>>

\* the numbers of database connections that can be open after __exit__ of
\* the handler ran with n open: an __exit__ that returns has released the
\* connection (scoped acquisition, guaranteed release on exit); of an
\* __exit__ that raises nothing is said, the connection is released or still
\* open
ConnectionsAfterExit(n, raised) == IF raised THEN {n - 1, n} ELSE {n - 1}

\* the with block is left by return True (line 89) or by an exception:
\* __exit__ releases the connection; it may raise itself, and its exception
\* replaces what was pending
LoadRelease ==
    /\ pc = "load_release"
    /\ \/ /\ loadLog' = Append(loadLog, "release")
          /\ dbOpen' \in ConnectionsAfterExit(dbOpen, FALSE)
          /\ UNCHANGED dbFaults
          /\ IF loadPending = "return"
             THEN /\ loadRet' = "True"
                  /\ successes' = successes + 1
                  /\ pc' = "load_ret"
             ELSE /\ UNCHANGED <<loadRet, successes>>
                  /\ pc' = Handler(excSite, exc)
          /\ UNCHANGED <<exc, excSite>>
       \/ /\ Raise("load_release", "Exception")
          /\ dbOpen' \in ConnectionsAfterExit(dbOpen, TRUE)
          /\ dbFaults' = dbFaults + 1
          /\ loadLog' = Append(loadLog, "release_raised")
          /\ UNCHANGED <<loadRet, successes>>
    /\ loadPending' = "none"
    /\ UNCHANGED <<attempt, exitStatus, escaped, loadArg, dfPresent, trFault>>
    /\ UNCHANGED <<sleepCount, warned, slept, failStage>>
    /\ UNCHANGED <<startVars, vpnVars, extVars, worldVars>>

\* except Exception as e: log, return False (lines 90-92)
LoadExcept ==
    /\ pc = "load_except"
    /\ loadRet' = "False"
    /\ exc' = "none"
    /\ pc' = "load_ret"
    /\ UNCHANGED <<attempt, excSite, exitStatus, escaped>>
    /\ UNCHANGED <<loadArg, loadPending, dfPresent, trFault, dbOpen, dbFaults, loadLog>>
    /\ UNCHANGED <<histVars, startVars, vpnVars, extVars, worldVars>>

\* if self._load_step(file_path): ... (lines 114-117); a false result raises
\* nothing and the body of the try ends
LoadCheck ==
    /\ pc = "load_ret"
    /\ IF loadRet = "True"
       THEN /\ pc' = "sys_exit0"
            /\ UNCHANGED failStage
       ELSE /\ pc' = "next"
            /\ failStage' = [failStage EXCEPT ![attempt] = "load"]
    /\ UNCHANGED <<attempt, exc, excSite, exitStatus, escaped>>
    /\ UNCHANGED <<sleepCount, warned, slept, successes>>
    /\ UNCHANGED <<startVars, vpnVars, extVars, loadVars, worldVars>>

\* return sys.exit(0) (line 118): SystemExit is raised inside the try
SysExit0 ==
    /\ pc = "sys_exit0"
    /\ Raise("sys_exit0", "SystemExit")
    /\ UNCHANGED <<attempt, exitStatus, escaped>>
    /\ UNCHANGED <<histVars, startVars, vpnVars, extVars, loadVars, worldVars>>

\* ------------------------------------------------------------ specification
Next ==
    \/ LoopIter
    \/ VpnConstruct
    \/ VpnTick
    \/ VpnWait
    \/ VpnExcept
    \/ VpnCheck
    \/ AbandonedFinish
    \/ ExtConstruct
    \/ ExtRun
    \/ ExtClose
    \/ ExtCheck
    \/ LoadTransform
    \/ LoadAcquire
    \/ LoadTableExists
    \/ LoadCreate
    \/ LoadInsert
    \/ LoadDelete
    \/ LoadRelease
    \/ LoadExcept
    \/ LoadCheck
    \/ SysExit0
    \/ AttemptExcept
    \/ SleepDone
    \/ LoopNext
    \/ Exhausted
    \/ ProcessExit

Spec == Init /\ [][Next]_vars

\* the steps of the main thread: the event loop running run_pipeline, the
\* calls it awaits, and the exit of the interpreter once asyncio.run has
\* joined the executor's threads.  The finish of an abandoned connector
\* thread is not among them
MainNext ==
    \/ LoopIter
    \/ VpnConstruct
    \/ VpnTick
    \/ VpnWait
    \/ VpnExcept
    \/ VpnCheck
    \/ ExtConstruct
    \/ ExtRun
    \/ ExtClose
    \/ ExtCheck
    \/ LoadTransform
    \/ LoadAcquire
    \/ LoadTableExists
    \/ LoadCreate
    \/ LoadInsert
    \/ LoadDelete
    \/ LoadRelease
    \/ LoadExcept
    \/ LoadCheck
    \/ SysExit0
    \/ AttemptExcept
    \/ SleepDone
    \/ LoopNext
    \/ Exhausted
    \/ ProcessExit

\* the run under the scheduling the code gives it: every awaited call returns
\* or raises, asyncio.wait_for ends the VPN wait at its deadline and
\* asyncio.sleep completes, so the main thread always takes its next step.
\* connect_with_fallback runs in a thread the event loop cannot cancel
\* (asyncio.to_thread, line 32): nothing makes an abandoned call return
LiveSpec == Init /\ [][Next]_vars /\ WF_vars(MainNext)
\* ------------------------------------------------------------------ claims
\* the run has ended
Done == pc = "done"

\* the tags of loadLog
LogTags == {loadLog[i] : i \in DOMAIN loadLog}

\* positions of tag in loadLog
LogIdx(tag) == {i \in DOMAIN loadLog : loadLog[i] = tag}

\* C1: when all max_retries attempts fail and the process exits with status
\* 1, the retry delay has been invoked exactly max_retries - 1 times and not
\* after the final failed attempt.
C1_DelaysWhenExhausted ==
    (Done /\ exitStatus = 1) =>
        (sleepCount = max_retries - 1 /\ slept[max_retries] = 0)

\* C2: a failed Load stage is handled like a failed VPN or Extract stage:
\* once the attempt is over its failure has been logged as one warning naming
\* the attempt, and if attempts remained the retry delay was waited once
\* before the next attempt.
C2_LoadFailureHandledLikeOthers ==
    \A a \in Attempts :
        (failStage[a] = "load" /\ (attempt > a \/ pc \in {"exhausted", "uncaught", "done"}))
            => (warned[a] = 1 /\ (a < max_retries => slept[a] = 1))

\* C3: when the run exits with status 0 on attempt a, after attempts 1..a-1
\* failed, the retry delay has been invoked exactly a-1 times.
C3_DelaysBeforeSuccess ==
    (Done /\ exitStatus = 0) => sleepCount = attempt - 1

\* C4: once _load_step has returned true the run goes straight to the exit
\* with status 0: no stage and no retry delay is started afterwards, the
\* attempt counter does not move, and the attempt-level handler is not
\* entered.
C4_SuccessIsFinal ==
    [][successes > 0 =>
          /\ pc' \in {"load_ret", "sys_exit0", "uncaught", "done"}
          /\ <<vpnStarts, extStarts, loadStarts>>' = <<vpnStarts, extStarts, loadStarts>>
          /\ <<sleepCount, warned, attempt>>' = <<sleepCount, warned, attempt>>
          /\ (pc' = "done" => exitStatus' = 0)]_vars

\* a run that succeeded while attempts remained and exited with status 0
C4_Witness ==
    Done /\ successes = 1 /\ exitStatus = 0 /\ attempt < max_retries

\* C5: the process exits with status 1 exactly when max_retries attempts
\* were started and each of them failed; never while attempts remain and
\* never after a load that returned true.
C5_ExitOneIffExhausted ==
    /\ exitStatus = 1 =>
          /\ Done
          /\ vpnStarts = max_retries
          /\ \A a \in Attempts : failStage[a] # "none"
          /\ successes = 0
    /\ (Done /\ vpnStarts = max_retries /\ successes = 0
          /\ \A a \in Attempts : failStage[a] # "none") => exitStatus = 1

\* an exhausted run whose attempts failed at three different stages
C5_Witness ==
    Done /\ exitStatus = 1 /\ failStage = <<"vpn", "extract", "load">>

\* C6: in every call of _extract_step that constructed the scraper, close is
\* called exactly once by the time the call is over, never more than once,
\* and only after the workflow has returned or raised.
C6_CloseExactlyOnce ==
    /\ closeCalls <= 1
    /\ closeCalls > 0 => (workflowEnded /\ scraperMade)
    /\ (scraperMade /\ pc \notin {"ext_run", "ext_finally"}) => closeCalls = 1

\* the workflow raised, close was called once and the exception reached the
\* attempt-level handler
C6_Witness ==
    /\ pc = "attempt_except" /\ excSite = "ext_run"
    /\ scraperMade /\ workflowEnded /\ closeCalls = 1

\* C7: within a call of _load_step the side effects come in the order table
\* creation (after a table-exists check) -> bulk insert -> artifact deletion;
\* the deletion is tried only after the insert of that call completed, and
\* after an exception in the call the artifact is not deleted.
C7_PersistOrder ==
    /\ \A d \in LogIdx("delete") \cup LogIdx("delete_failed") :
          \E i \in LogIdx("insert") : i < d
    /\ \A c \in LogIdx("create") :
          /\ \A i \in LogIdx("insert") : c < i
          /\ \E e \in LogIdx("table_exists") : e < c
    /\ "raised" \in LogTags =>
          /\ LogIdx("delete") = {}
          /\ loadArg # NoPath => loadArg \in files

\* the persist phase raised after the table creation and before the insert
\* completed; the call returned false and the artifact is still there
C7_Witness ==
    /\ pc = "load_ret" /\ loadRet = "False"
    /\ loadLog = <<"transform_ok", "acquire", "table_exists", "create", "raised",
                   "release">>
    /\ loadArg \in files

\* C8: the Load stage produces its side effects only on full success:
\* whenever a call of _load_step returns false, none of table creation, bulk
\* insert or deletion of the artifact file has taken effect during that call
C8_NoEffectOnFalse ==
    (pc = "load_ret" /\ loadRet = "False") =>
        /\ "delete" \notin LogTags
        /\ "insert" \notin LogTags
        /\ "create" \notin LogTags

\* C9: when the transform reports failure, _load_step returns false at once:
\* it is the only collaborator call of that _load_step call, no connection is
\* acquired and the persist phase is not entered.
C9_TransformFailureSkipsPersist ==
    "transform_fail" \in LogTags =>
        /\ loadLog = <<"transform_fail">>
        /\ loadRet = "False"
        /\ pc \notin {"load_acquire", "load_table_exists", "load_create",
                      "load_insert", "load_delete", "load_release", "load_except"}

\* the transform failed and the call has returned false
C9_Witness ==
    pc = "load_ret" /\ loadLog = <<"transform_fail">> /\ loadRet = "False" /\ dbOpen = 0

\* C10: no exception escapes _load_step: an exception raised at any statement
\* of the transform or persist phase, acquisition and release included, goes
\* to the except clause of the stage, and a call in which one was raised
\* returns false.
C10_NoExceptionEscapesLoad ==
    /\ (exc # "none" /\ StageOf(excSite) = "load") =>
          pc \in {"load_release", "load_except"}
    /\ (pc = "load_ret" /\ LogTags \cap {"raised", "release_raised"} # {}) =>
          loadRet = "False"

\* the release of the connection raised after the insert and the call
\* returned false
C10_Witness ==
    /\ pc = "load_ret" /\ loadRet = "False"
    /\ "insert" \in LogTags /\ "release_raised" \in LogTags

\* C11: no exception of a collaborator leaves run_pipeline: every exception
\* other than the SystemExit of sys.exit is on its way to an except clause of
\* a stage or of the attempt, an attempt that ends without an exit is counted
\* as failed, and the process ends only by SystemExit, with status 0 or 1.
C11_NothingEscapes ==
    /\ ~escaped
    /\ pc = "uncaught" => exc = "SystemExit"
    /\ exc \notin {"none", "SystemExit"} =>
          pc \in {"vpn_except", "ext_finally", "load_release", "load_except",
                  "attempt_except"}
    /\ pc \in {"sleep", "next"} => failStage[attempt] # "none"
    /\ Done => exitStatus \in {0, 1}

\* the session close raised in the last attempt and the exception is held by
\* the attempt-level handler
C11_Witness ==
    /\ pc = "attempt_except" /\ excSite = "ext_close" /\ exc = "Exception"
    /\ attempt = max_retries

\* statements of _load_step
LoadPcs == {"load_transform", "load_acquire", "load_table_exists", "load_create",
            "load_insert", "load_delete", "load_release", "load_except"}

\* connector routines executing: the awaited one and the abandoned ones
ConnectorsRunning == abandoned + (IF pc = "vpn_wait" THEN 1 ELSE 0)

\* stage routines executing
RoutinesRunning ==
    ConnectorsRunning + (IF pc = "ext_run" THEN 1 ELSE 0)
                      + (IF pc \in LoadPcs THEN 1 ELSE 0)

\* waits of the run that ended by the timeout
Timeouts == Cardinality({a \in Attempts : vpnOutcome[a] = "timeout"})

\* C12 as stated: at every point of a run at most one stage routine is
\* executing, and no two invocations of the connector overlap, attempts after
\* a VPN timeout included.
C12_StrictlySequential == RoutinesRunning <= 1

\* C12 amended: the only routines that run beside the one the orchestrator
\* is in are connector threads whose wait timed out, at most one per timed
\* out attempt; without a VPN timeout at most one stage routine executes.
C12_SequentialButAbandoned ==
    /\ abandoned <= Timeouts
    /\ RoutinesRunning <= 1 + Timeouts
    /\ Timeouts = 0 => RoutinesRunning <= 1

\* the connector of attempt 2 is awaited while the connector abandoned in
\* attempt 1 is still running
C12_Witness ==
    /\ pc = "vpn_wait" /\ attempt = 2 /\ abandoned = 1
    /\ vpnOutcome[1] = "timeout"

\* C13: the wait for the connector never lasts longer than
\* vpn_switch_timeout + 10; when it ends by the timeout the adapter returns
\* False with the connector thread left running; and the later end of an
\* abandoned thread changes nothing but the number of running threads.
C13_TimeoutBoundsTheWait ==
    /\ [](/\ vpnElapsed <= vpn_switch_timeout + 10
          /\ (pc = "vpn_check" /\ vpnOutcome[attempt] = "timeout") =>
                (vpnRet = "False" /\ vpnElapsed = vpn_switch_timeout + 10))
    /\ [][(pc = "vpn_wait" /\ exc' = "TimeoutError") =>
            (abandoned' = abandoned + 1 /\ pc' = "vpn_except")]_vars
    /\ [][abandoned' < abandoned =>
            /\ UNCHANGED <<pc, attempt, exc, excSite, exitStatus, escaped>>
            /\ UNCHANGED <<vpnRet, vpnOutcome, failStage, warned, sleepCount>>
            /\ UNCHANGED <<startVars, extVars, loadVars, worldVars>>]_vars

\* the adapter has returned False at the deadline while the connector it
\* waited for is still running
C13_Witness ==
    /\ pc = "vpn_check" /\ vpnOutcome[attempt] = "timeout" /\ vpnRet = "False"
    /\ vpnElapsed = vpn_switch_timeout + 10 /\ abandoned >= 1

\* C14: _manage_vpn_connection always returns a boolean: True when the
\* connector reported success within the timeout, the explicit value False
\* in every other case, a negative result of the connector included.
C14_VpnReturnsBoolean ==
    pc = "vpn_check" =>
        /\ vpnRet \in {"True", "False"}
        /\ vpnRet = "True" <=> vpnOutcome[attempt] = "ok"

\* statements of _extract_step
ExtractPcs == {"ext_ctor", "ext_run", "ext_finally", "ext_check"}

\* C15: the stages of an attempt start in the order VPN, Extract, Load, each
\* gated on its predecessor: Extract runs only after the VPN stage of the
\* attempt returned True, any other result ends the attempt with a
\* ConnectionError; Load runs only after Extract returned success with a
\* path, anything else ends the attempt with a RuntimeError; and the argument
\* of Load is the path Extract returned.
C15_StagesGated ==
    /\ loadStarts <= extStarts /\ extStarts <= vpnStarts
    /\ vpnStarts \in {attempt - 1, attempt}
    /\ pc \in ExtractPcs \cup LoadPcs =>
          (vpnRet = "True" /\ vpnOutcome[attempt] = "ok" /\ vpnStarts = attempt)
    /\ pc \in LoadPcs =>
          (extRet[1] /\ extRet[2] \in Paths /\ loadArg = extRet[2])
    /\ (pc = "attempt_except" /\ excSite = "vpn_check") =>
          (exc = "ConnectionError" /\ vpnRet # "True")
    /\ (pc = "attempt_except" /\ excSite = "ext_check") =>
          (exc = "RuntimeError" /\ (~extRet[1] \/ extRet[2] = NoPath))

\* in the second attempt Load has started with the path Extract returned,
\* after a first attempt that ended at the VPN stage on an absent result
C15_Witness ==
    /\ pc = "load_transform" /\ attempt = 2 /\ loadArg = extRet[2]
    /\ vpnOutcome[1] = "neg" /\ failStage[1] = "vpn" /\ extStarts = 1

\* statements inside the with block of _load_step
WithPcs == {"load_table_exists", "load_create", "load_insert", "load_delete",
            "load_release"}

C17_DeleteFailureKeepsSuccess ==
    /\ ("delete_failed" \in LogTags /\ pc = "load_ret") => loadRet = "True"
    /\ ("delete_failed" \in LogTags /\ pc = "load_ret") => exc = "none"

\* C18: process_most_recent_file never raises to _load_step: a result with
\* success=True carries a dataframe, and every failure met inside it comes
\* back as success=False without a dataframe
C18_TransformNeverRaises ==
    /\ "process_raised" \notin LogTags
    /\ "transform_ok" \in LogTags => (dfPresent /\ trFault = "none")
    /\ "transform_fail" \in LogTags => ~dfPresent
    /\ (trFault # "none" /\ pc \in LoadPcs \ {"load_transform"})
          => (loadLog = <<"transform_fail">> /\ ~dfPresent /\ loadRet = "False"
              /\ pc = "load_ret" /\ exc = "none")

C18_Witness ==
    /\ pc = "load_ret"
    /\ trFault = "locate"
    /\ loadArg \in files
    /\ loadLog = <<"transform_fail">>
    /\ ~dfPresent

\* C20: in any run the dataset is bulk-inserted at most once: after an insert
\* that completed without raising, no later attempt of the run completes
\* another bulk insert
C20_InsertAtMostOnce == inserts <= 1

\* C19: every run of run_pipeline eventually terminates with exit status 0
\* or 1, having started the VPN stage at most max_retries times
C19_RunTerminates ==
    /\ <>(Done /\ exitStatus \in {0, 1})
    /\ [](vpnStarts <= max_retries)
====
